---- MODULE Spec2Model ----
(***************************************************************************)
(* PrintSpanTree of picatz/otel-tracetest-printer (printer.go).            *)
(*                                                                         *)
(* A Go string is modelled as the sequence of its "\n"-separated lines,    *)
(* and a line as the sequence of its cells; a cell is one display column   *)
(* (a styled label, a styled value, a space, a border glyph).  The writer  *)
(* w holds the lines it has accepted, each one terminated by a line break. *)
(***************************************************************************)
EXTENDS Integers, Sequences, FiniteSets, TLC

\* Longest input span list.
MaxSpans == 3
\* StartTime ranges over 0..MaxTime.
MaxTime == 1

(***************************************************************************)
(* State                                                                   *)
(***************************************************************************)
VARIABLES
    spans,        \* the argument of PrintSpanTree
    tieOrder,     \* how the build's sort.Slice orders equal elements
                  \* ("unset" until the first sort shows it)
    sink,         \* "buffer": w accepts every write; "failing": w may refuse
    pc,           \* "idle", "printing" (the loop of lines 87-90), "done",
                  \* "overflow" (the process died of a stack overflow)
    childrenMap,  \* the sorted childrenMap
    roots,        \* the sorted roots
    next,         \* index in roots of the next root to print
    w,            \* the lines w has accepted during the current call
    writes,       \* number of Write calls made on w during the current call
    werr,         \* the last error a Write on w returned ("nil": none)
    ret,          \* what the call handed back to its caller
    again,        \* whether the caller calls PrintSpanTree a second time
    prev          \* the lines w accepted during the previous call

vars == <<spans, tieOrder, sink, pc, childrenMap, roots, next, w, writes, werr,
          ret, again, prev>>

(***************************************************************************)
(* Input spans (tracetest.SpanStub).  id and parent are span identifiers;  *)
(* 0 is the all-zero identifier, for which SpanID.IsValid() is false.      *)
(* name is the span's position in the input, so that two spans of one      *)
(* input are always told apart.                                            *)
(***************************************************************************)
Max(a, b) == IF a >= b THEN a ELSE b

\* The fixture's attributes: every span carries "component", and the
\* spans at even positions an "error_code" as well (as child-span-2 does).
FixtureAttributes(n) ==
    IF n % 2 = 0
    THEN << <<"component", "c">>, <<"error_code", "something_wrong">> >>
    ELSE << <<"component", "c">> >>

SpanStub(n, i, p, t) ==
    [name |-> n, id |-> i, parent |-> p, start |-> t, end |-> t + 1,
     attrs |-> FixtureAttributes(n)]

RECURSIVE MaxToken(_)
MaxToken(l) ==
    IF l = <<>> THEN 0
    ELSE Max(MaxToken(SubSeq(l, 1, Len(l) - 1)),
             Max(l[Len(l)].id, l[Len(l)].parent))

(***************************************************************************)
(* The span lists of length n.  The code reads identifiers only through    *)
(* IsValid and through equality of their String() forms, so the lists are  *)
(* enumerated up to renaming of identifiers: each identifier is either one *)
(* already used in the list or the least unused one.  A parent may be 0    *)
(* (root), the identifier of a span before or after it in the list, the    *)
(* span's own, one shared with another span, or one no span carries.       *)
(***************************************************************************)
Admitted(l, i, p) ==
    /\ i <= MaxToken(l) + 1
    /\ p <= Max(MaxToken(l), i) + 1

RECURSIVE SpanListsOfLen(_)
SpanListsOfLen(n) ==
    IF n = 0 THEN {<<>>}
    ELSE LET choices ==
               { x \in SpanListsOfLen(n - 1) \X (1..(2 * n - 1)) \X (0..(2 * n))
                          \X (0..MaxTime) : Admitted(x[1], x[2], x[3]) }
         IN  { Append(x[1], SpanStub(n, x[2], x[3], x[4])) : x \in choices }

\* Start times are read only by the comparators of the two sorts, which
\* compare the roots with each other and the spans of one childrenMap list
\* with each other.  The lists are enumerated up to order-preserving
\* renaming of the times within each such group: its times are 0..k.
DenseTimes(l) ==
    \A g \in { l[k].parent : k \in 1..Len(l) } :
      LET used == { l[k].start : k \in { j \in 1..Len(l) : l[j].parent = g } }
      IN  \A t \in used : t = 0 \/ (t - 1) \in used

\* ss is an argument of PrintSpanTree.
IsInput(ss) ==
    \E n \in 0..MaxSpans :
      IF n = 0 THEN ss = <<>>
      ELSE \E l \in SpanListsOfLen(n - 1), i \in 1..(2 * n - 1),
              p \in 0..(2 * n), t \in 0..MaxTime :
             /\ Admitted(l, i, p)
             /\ DenseTimes(Append(l, SpanStub(n, i, p, t)))
             /\ ss = Append(l, SpanStub(n, i, p, t))

(***************************************************************************)
(* sort.Slice                                                              *)
(***************************************************************************)
\* The comparator of both sorts: StartTime.Before.
Less(a, b) == a.start < b.start

\* sort.Slice orders by less and leaves the order of elements that compare
\* equal to the implementation ("not guaranteed to be stable"); the
\* implementation is a deterministic algorithm.  tie is the implementation's
\* treatment of equal elements: "kept" in slice order, or "reversed".
TieOrders == {"kept", "reversed"}

MovesBefore(x, y, tie) == Less(x, y) \/ (tie = "reversed" /\ ~Less(y, x))

RECURSIVE InsertSorted(_, _, _)
InsertSorted(pre, x, tie) ==
    IF pre = <<>> THEN <<x>>
    ELSE LET last == pre[Len(pre)]
         IN  IF MovesBefore(x, last, tie)
             THEN Append(InsertSorted(SubSeq(pre, 1, Len(pre) - 1), x, tie), last)
             ELSE Append(pre, x)

RECURSIVE SortSlice(_, _)
SortSlice(s, tie) ==
    IF Len(s) <= 1 THEN s
    ELSE InsertSorted(SortSlice(SubSeq(s, 1, Len(s) - 1), tie), s[Len(s)], tie)

(***************************************************************************)
(* The forest: childrenMap and roots                                       *)
(***************************************************************************)
IsValid(id) == id # 0

\* childrenMap[key] of Go: a missing key yields the nil slice.
Lookup(cm, key) == IF key \in DOMAIN cm THEN cm[key] ELSE <<>>

RECURSIVE BuildChildrenMap(_)
BuildChildrenMap(ss) ==
    IF ss = <<>> THEN <<>>
    ELSE LET cm == BuildChildrenMap(SubSeq(ss, 1, Len(ss) - 1))
             s  == ss[Len(ss)]
         IN  IF ~IsValid(s.parent) THEN cm
             ELSE IF s.parent \in DOMAIN cm
                  THEN [cm EXCEPT ![s.parent] = Append(@, s)]
                  ELSE [k \in DOMAIN cm \cup {s.parent} |->
                          IF k = s.parent THEN <<s>> ELSE cm[k]]

\* The orders in which `range childrenMap` may visit the keys.
RECURSIVE KeyOrders(_)
KeyOrders(keys) ==
    IF keys = {} THEN {<<>>}
    ELSE UNION { { <<k>> \o o : o \in KeyOrders(keys \ {k}) } : k \in keys }

\* A faulty loop: one scratch slice serves every key, so that every list
\* ends up aliasing the one sorted last.
SortChildrenSharedScratch(cm, order, tie) ==
    IF order = <<>> THEN cm
    ELSE [k \in DOMAIN cm |-> SortSlice(cm[order[Len(order)]], tie)]

\* Lines 66-71: every list of childrenMap sorted, the keys visited in order.
RECURSIVE SortChildren(_, _, _)
SortChildren(cm, order, tie) ==
    IF order = <<>> THEN cm
    ELSE SortChildren([cm EXCEPT ![order[1]] = SortSlice(@, tie)],
                      Tail(order), tie)

\* A faulty root test: a span whose parent is not in the input counts as a
\* root too.
IsRootOrOrphan(s) ==
    \/ ~IsValid(s.parent)
    \/ \A k \in 1..Len(spans) : spans[k].id # s.parent

\* Line 76.
IsRoot(s) == ~IsValid(s.parent)

RootsOf(ss, tie) == SortSlice(SelectSeq(ss, IsRoot), tie)

(***************************************************************************)
(* Rendering                                                               *)
(***************************************************************************)
\* lipgloss Style.Render of a one-line text: the text under the style.
LabelStyle(text) == "label:" \o text
ValueStyle(text) == "value:" \o text
ErrorHighlightStyle(text) == "error:" \o text

childIndent == <<" ", " ">>

JoinLabelValue(label, val) == <<LabelStyle(label), " ", " ", ValueStyle(val)>>

FormatTime(t) == "t" \o ToString(t)

IsErrorAttribute(key, val) ==
    \/ key \in {"error", "error_code", "rpc.connect_rpc.error_code"}
    \/ val \in {"error", "not_found"}

AttributeLine(attr) ==
    LET bullet == attr[1] \o " = " \o attr[2]
    IN  childIndent \o << IF IsErrorAttribute(attr[1], attr[2])
                          THEN ErrorHighlightStyle(bullet)
                          ELSE ValueStyle(bullet) >>

\* Lines 100-129: the span's own lines.
OwnLines(span) ==
    << JoinLabelValue("Span Name:", ToString(span.name)),
       JoinLabelValue("TraceID:", "trace"),
       JoinLabelValue("SpanID:", ToString(span.id)) >>
    \o (IF IsValid(span.parent)
        THEN << JoinLabelValue("ParentSpan:", ToString(span.parent)) >>
        ELSE <<>>)
    \o << JoinLabelValue("Start Time:", FormatTime(span.start)),
          JoinLabelValue("End Time:", FormatTime(span.end)),
          JoinLabelValue("Duration:", ToString(span.end - span.start) \o "s"),
          <<LabelStyle("Attributes:")>> >>
    \o [k \in 1..Len(span.attrs) |-> AttributeLine(span.attrs[k])]

\* A faulty indent: the prefix is put before the string, not before each of
\* its lines.
IndentFirstLine(s, indent) ==
    [k \in 1..Len(s) |-> IF k = 1 THEN indent \o s[k] ELSE s[k]]

IndentAllLines(s, indent) == [k \in 1..Len(s) |-> indent \o s[k]]

Spaces(n) == [k \in 1..n |-> " "]

RECURSIVE MaxWidth(_)
MaxWidth(rows) ==
    IF rows = <<>> THEN 0
    ELSE Max(Len(rows[1]), MaxWidth(Tail(rows)))

\* lipgloss.JoinVertical(lipgloss.Left, ...): the lines stacked, each padded
\* on the right to the widest.
JoinVertical(rows) ==
    LET wd == MaxWidth(rows)
    IN  [k \in 1..Len(rows) |-> rows[k] \o Spaces(wd - Len(rows[k]))]

\* boxStyle.Render: one column of padding on either side, inside a rounded
\* border ("/", "-", "\", "|" stand for the border's glyphs).
BoxRender(content) ==
    LET wd   == MaxWidth(content)
        rule == [k \in 1..(wd + 2) |-> "-"]
    IN  << <<"/">> \o rule \o <<"\\">> >>
        \o [k \in 1..Len(content) |->
              <<"|", " ">> \o content[k] \o Spaces(wd - Len(content[k]))
                \o <<" ", "|">>]
        \o << <<"\\">> \o rule \o <<"/">> >>

(***************************************************************************)
(* buildSpanBox.  stack is the set of spans whose buildSpanBox call is on  *)
(* the call stack.  The result of a call depends on its span and on        *)
(* childrenMap alone, so a call for a span that is already on the stack    *)
(* repeats without end: the goroutine's stack grows until the runtime      *)
(* stops the process (fatal error: stack overflow).  ok is FALSE then.     *)
(***************************************************************************)
RECURSIVE BuildSpanBox(_, _, _)
RECURSIVE ChildBoxes(_, _, _)

\* Lines 132-137: the indented boxes of the children, in childrenMap order.
ChildBoxes(children, cm, stack) ==
    IF children = <<>> THEN [ok |-> TRUE, lines |-> <<>>]
    ELSE LET first == BuildSpanBox(children[1], cm, stack)
         IN  IF ~first.ok THEN [ok |-> FALSE, lines |-> <<>>]
             ELSE LET rest == ChildBoxes(Tail(children), cm, stack)
                  IN  IF ~rest.ok THEN [ok |-> FALSE, lines |-> <<>>]
                      ELSE [ok |-> TRUE,
                            lines |-> IndentAllLines(first.box, childIndent)
                                        \o rest.lines]

BuildSpanBox(span, cm, stack) ==
    IF span \in stack THEN [ok |-> FALSE, box |-> <<>>]
    ELSE LET kids == ChildBoxes(Lookup(cm, span.id), cm, stack \cup {span})
         IN  IF ~kids.ok THEN [ok |-> FALSE, box |-> <<>>]
             ELSE [ok |-> TRUE,
                   box |-> BoxRender(JoinVertical(OwnLines(span) \o kids.lines))]

(***************************************************************************)
(* PrintSpanTree                                                           *)
(***************************************************************************)
InitWith(sinks, agains) ==
    /\ IsInput(spans)
    /\ tieOrder = "unset"
    /\ sink \in sinks
    /\ again \in agains
    /\ pc = "idle"
    /\ childrenMap = <<>>
    /\ roots = <<>>
    /\ next = 1
    /\ w = <<>>
    /\ writes = 0
    /\ werr = "nil"
    /\ ret = "none"
    /\ prev = <<>>

Init == InitWith({"buffer"}, {FALSE})

\* A faulty early return: it ends the output with a line break first.
EarlyReturnBlankLine ==
    /\ pc = "idle"
    /\ Len(spans) = 0
    /\ pc' = "done"
    /\ ret' = "void"
    /\ w' = Append(w, <<>>)
    /\ writes' = writes + 1
    /\ UNCHANGED <<spans, tieOrder, sink, childrenMap, roots, next, werr,
                   again, prev>>

\* Lines 48-50: no spans, no output.
EarlyReturn ==
    /\ pc = "idle"
    /\ Len(spans) = 0
    /\ pc' = "done"
    /\ ret' = "void"
    /\ UNCHANGED <<spans, tieOrder, sink, childrenMap, roots, next, w, writes,
                   werr, again, prev>>

\* Lines 52-84: childrenMap, its lists sorted in whatever order the keys
\* come, and the sorted roots.  Without a root the loop of lines 87-90 has
\* nothing to do and the call returns.
BuildForest ==
    /\ pc = "idle"
    /\ Len(spans) # 0
    /\ \E t \in TieOrders :
         /\ tieOrder \in {"unset", t}
         /\ tieOrder' = t
         /\ roots' = RootsOf(spans, t)
         /\ LET cm == BuildChildrenMap(spans)
            IN  \E order \in KeyOrders(DOMAIN cm) :
                  childrenMap' = SortChildren(cm, order, t)
    /\ next' = 1
    /\ pc' = IF roots' = <<>> THEN "done" ELSE "printing"
    /\ ret' = IF roots' = <<>> THEN "void" ELSE ret
    /\ UNCHANGED <<spans, sink, w, writes, werr, again, prev>>

\* Whether w accepts a write: a bytes.Buffer always does.
Accepts == IF sink = "buffer" THEN {TRUE} ELSE BOOLEAN

\* Lines 87-90, one iteration: build the root's box and Fprintln it.  The
\* results of Fprintln are discarded; PrintSpanTree has no result.
WriteRoot ==
    /\ pc = "printing"
    /\ LET r == BuildSpanBox(roots[next], childrenMap, {})
       IN  IF ~r.ok
           THEN /\ pc' = "overflow"
                /\ UNCHANGED <<next, w, writes, werr, ret>>
           ELSE \E accepted \in Accepts :
                  /\ writes' = writes + 1
                  /\ w' = IF accepted THEN w \o r.box ELSE w
                  /\ werr' = IF accepted THEN werr ELSE "refused"
                  /\ next' = next + 1
                  /\ pc' = IF next = Len(roots) THEN "done" ELSE "printing"
                  /\ ret' = IF next = Len(roots) THEN "void" ELSE ret
    /\ UNCHANGED <<spans, tieOrder, sink, childrenMap, roots, again, prev>>

\* The caller calls PrintSpanTree again, on the same spans and a fresh w.
CallAgain ==
    /\ pc = "done"
    /\ again
    /\ again' = FALSE
    /\ prev' = w
    /\ w' = <<>>
    /\ writes' = 0
    /\ werr' = "nil"
    /\ ret' = "none"
    /\ pc' = "idle"
    /\ childrenMap' = <<>>
    /\ roots' = <<>>
    /\ next' = 1
    /\ UNCHANGED <<spans, tieOrder, sink>>

Next == EarlyReturn \/ BuildForest \/ WriteRoot

Spec == Init /\ [][Next]_vars

\* Two calls on the same spans.
InitTwice == InitWith({"buffer"}, {TRUE})
NextTwice == EarlyReturn \/ BuildForest \/ WriteRoot \/ CallAgain
SpecTwice == InitTwice /\ [][NextTwice]_vars

\* A writer that may refuse a write.
InitFailingWriter == InitWith({"failing"}, {FALSE})
SpecFailingWriter == InitFailingWriter /\ [][Next]_vars

(***************************************************************************)
(* Reading the output.  The "Span Name:" line of span n stands in exactly  *)
(* one line of every block rendered for n; it starts at column c when the  *)
(* block is nested c \div 4 blocks deep (column 3 for a top-level block).  *)
(***************************************************************************)
NameAt(row, c, n) ==
    /\ Len(row) >= c + 3
    /\ row[c] = LabelStyle("Span Name:")
    /\ row[c + 3] = ValueStyle(ToString(n))

\* The lines of w that hold the name line of span n.
NameRows(n) ==
    { i \in 1..Len(w) : \E c \in 1..Len(w[i]) : NameAt(w[i], c, n) }

\* Those of top-level blocks.
TopRows(n) == { i \in 1..Len(w) : NameAt(w[i], 3, n) }

\* Span n is rendered, and its first block comes before every block of m.
RenderedBefore(n, m) ==
    /\ NameRows(n) # {}
    /\ \A j \in NameRows(m) : \E i \in NameRows(n) : i < j

Returned == pc = "done"
Ended == pc \in {"done", "overflow"}

DistinctIDs ==
    \A i, j \in 1..Len(spans) : i # j => spans[i].id # spans[j].id

\* Following parent identifiers from spans[k] reaches a root within fuel
\* steps, through spans that are all in the input.
RECURSIVE ReachesRoot(_, _)
ReachesRoot(k, fuel) ==
    \/ ~IsValid(spans[k].parent)
    \/ /\ fuel > 0
       /\ \E j \in 1..Len(spans) :
            spans[j].id = spans[k].parent /\ ReachesRoot(j, fuel - 1)

\* spans[k] names a parent no span of the input carries.
Orphan(k) ==
    /\ IsValid(spans[k].parent)
    /\ \A j \in 1..Len(spans) : spans[j].id # spans[k].parent

\* spans[k] is an orphan or, within fuel steps, a descendant of one.
RECURSIVE UnderOrphan(_, _)
UnderOrphan(k, fuel) ==
    \/ Orphan(k)
    \/ /\ fuel > 0
       /\ \E j \in 1..Len(spans) :
            spans[j].id = spans[k].parent /\ UnderOrphan(j, fuel - 1)

\* spans[i] and spans[j] are children of one parent.
Siblings(i, j) ==
    IsValid(spans[i].parent) /\ spans[i].parent = spans[j].parent

\* C1: once the call has returned, the rendered children of one parent
\* stand in non-decreasing order of StartTime, and two of them with equal
\* StartTime stand in their input order.
C1_ChildrenStableByStart ==
    Returned =>
      \A i, j \in 1..Len(spans) :
        (i < j /\ Siblings(i, j) /\ NameRows(i) # {} /\ NameRows(j) # {}) =>
          IF spans[j].start < spans[i].start
          THEN RenderedBefore(j, i)
          ELSE RenderedBefore(i, j)

\* C2: once the call has returned, w has taken one write per root and holds
\* exactly one top-level block for every root and none for any other span,
\* the blocks standing in non-decreasing order of the roots' StartTime and
\* two roots with equal StartTime in their input order.
C2_RootBlocksStableByStart ==
    Returned =>
      /\ writes = Cardinality({ k \in 1..Len(spans) : IsRoot(spans[k]) })
      /\ \A k \in 1..Len(spans) :
           Cardinality(TopRows(k)) = IF IsRoot(spans[k]) THEN 1 ELSE 0
      /\ \A i, j \in 1..Len(spans) :
           (i < j /\ IsRoot(spans[i]) /\ IsRoot(spans[j])) =>
             \A a \in TopRows(i), b \in TopRows(j) :
               IF spans[j].start < spans[i].start THEN b < a ELSE a < b

\* C3: when the call has ended, a span has a top-level block in w if and
\* only if its parent identifier is invalid.
C3_TopLevelIffNoParent ==
    Ended =>
      \A k \in 1..Len(spans) :
        (TopRows(k) # {}) <=> ~IsValid(spans[k].parent)

\* C4: a span whose parent identifier no span of the input carries is never
\* rendered, nor is any span below it that no parent chain ties to a root,
\* and a call on an input that holds such a span does not fail.
C4_OrphansDroppedWithoutError ==
    /\ \A k \in 1..Len(spans) :
         (UnderOrphan(k, Len(spans)) /\ ~ReachesRoot(k, Len(spans))) =>
           NameRows(k) = {}
    /\ (\E k \in 1..Len(spans) : Orphan(k)) => pc # "overflow"

(***************************************************************************)
(* C5.  A line of a block nested d blocks deep stands in w behind d times  *)
(* the frame and padding of an enclosing block and childIndent, and before *)
(* the padding and the d closing frames.                                   *)
(***************************************************************************)
Prefix(d) == [k \in 1..(4 * d) |-> IF k % 4 = 1 THEN "|" ELSE " "]

RowHolds(row, d, boxrow) ==
    LET from == 4 * d + 1
        to   == 4 * d + Len(boxrow)
    IN  /\ Len(row) >= to
        /\ SubSeq(row, 1, 4 * d) = Prefix(d)
        /\ SubSeq(row, from, to) = boxrow
        /\ \A k \in (to + 1)..Len(row) : row[k] \in {" ", "|"}
        /\ Cardinality({ k \in (to + 1)..Len(row) : row[k] = "|" }) = d

BoxOf(span) == BuildSpanBox(span, childrenMap, {}).box

RECURSIVE BlockAt(_, _, _)
RECURSIVE BlocksAt(_, _, _)

\* The block of span stands in w from line top on, d blocks deep: its own
\* lines first, then the blocks of its children, one level deeper.
BlockAt(span, top, d) ==
    LET box == BoxOf(span)
        own == OwnLines(span)
    IN  /\ top + Len(box) - 1 <= Len(w)
        /\ \A j \in 1..Len(box) : RowHolds(w[top + j - 1], d, box[j])
        /\ \A j \in 1..Len(own) :
             SubSeq(w[top + j], 4 * d + 3, 4 * d + 2 + Len(own[j])) = own[j]
        /\ BlocksAt(Lookup(childrenMap, span.id), top + 1 + Len(own), d + 1)

\* The blocks of the spans of list stand in w one after the other from line
\* top on, d blocks deep.
BlocksAt(list, top, d) ==
    \/ list = <<>>
    \/ /\ BlockAt(list[1], top, d)
       /\ BlocksAt(Tail(list), top + Len(BoxOf(list[1])), d)

\* C5: for every root written so far, the root's block stands in w, and
\* for every rendered parent and child the child's whole block, as
\* buildSpanBox returns it, stands inside the parent's block after the
\* parent's own lines, every line behind the same indent: a span at depth d
\* is enclosed in exactly d blocks and carries d levels of indent.
C5_ChildBlocksNested == BlocksAt(SubSeq(roots, 1, next - 1), 1, 0)

\* A block nested two blocks deep has been written.
C5_Witness ==
    /\ Returned
    /\ \E i \in 1..Len(w), n \in 1..Len(spans) : NameAt(w[i], 11, n)

\* C6: when the span identifiers are pairwise distinct the call does not
\* fail, and once it has returned a span is rendered exactly once if its
\* parent chain reaches a root through spans of the input, and not at all
\* otherwise.
C6_RenderedOnceIffRooted ==
    DistinctIDs =>
      /\ pc # "overflow"
      /\ Returned =>
           \A k \in 1..Len(spans) :
             Cardinality(NameRows(k)) =
               IF ReachesRoot(k, Len(spans)) THEN 1 ELSE 0

\* A returned call on distinct identifiers that rendered a span below a
\* root and left another one out.
C6_Witness ==
    /\ Returned
    /\ DistinctIDs
    /\ \E k \in 1..Len(spans) :
         IsValid(spans[k].parent) /\ Cardinality(NameRows(k)) = 1
    /\ \E k \in 1..Len(spans) : NameRows(k) = {}

\* C7: a call with no spans makes no write on w and leaves it empty.
C7_NoSpansNoWrite == Len(spans) = 0 => (writes = 0 /\ w = <<>>)

\* A call with no spans has returned.
C7_Witness == Len(spans) = 0 /\ Returned

\* C8: when the second call on the same spans has returned, w holds what
\* it held after the first.
C8_SecondCallSameOutput == (Returned /\ ~again) => w = prev

\* A second call has returned whose childrenMap had two keys to visit and
\* whose output holds a nested block.
C8_Witness ==
    /\ Returned
    /\ ~again
    /\ Cardinality(DOMAIN childrenMap) >= 2
    /\ \E i \in 1..Len(w), n \in 1..Len(spans) : NameAt(w[i], 7, n)

\* C9: when w has refused a write, the call hands that error back to its
\* caller.
C9_WriteFailurePropagated == (Returned /\ werr # "nil") => ret = werr

\* C10: the call never fails: its recursion ends.
C10_Terminates == pc # "overflow"

====
